---- MODULE Spec2Model ----
(***************************************************************************)
(* A model of jpype/_jproxy.py: the @JImplements proxy-class factory       *)
(* (_createJProxy and its closure `new`), interface resolution             *)
(* (_convertInterfaces), override collection and validation, the legacy    *)
(* JProxy constructor and JProxy.unwrap.                                   *)
(***************************************************************************)
EXTENDS Naturals, Sequences, FiniteSets

VARIABLES
    classes,    \* the Python classes defined so far (host classes and proxy types)
    objs,       \* the proxy instances the native allocator has produced
    nextId,     \* identity of the next tuple object _convertInterfaces returns
    last,       \* the last operation: its arguments and its outcome
    thr,        \* per-thread position inside the closure `new` (threaded runs)
    input,      \* the arguments drawn for a run over one declaration
    native      \* what the native layer records as __javainst__ for target None

vars == <<classes, objs, nextId, last, thr, input, native>>

(***************************************************************************)
(* Bounds of the model.                                                    *)
(***************************************************************************)
MaxHosts == 2       \* class statements per run
MaxProxies == 2     \* proxy types declared per run
MaxObjs == 2        \* proxy instances per run
MaxItems == 2       \* items in a generated interface specification
MaxThreads == 2     \* threads constructing instances concurrently

(***************************************************************************)
(* The foreign runtime, as seen through _jpype: classes that JClass can    *)
(* look up, which of them are interfaces, and their reflected methods.     *)
(***************************************************************************)
ABSTRACT == 1024    \* java.lang.reflect.Modifier.ABSTRACT

JClasses == {"I1", "I2", "K"}
JInterfaces == {"I1", "I2"}
MethodNames == {"run", "close", "dflt"}

\* interface.class_.getMethods(): an ordered sequence of (name, modifiers)
getMethods(c) ==
    CASE c = "I1" -> << [name |-> "run", mods |-> 1025],
                        [name |-> "dflt", mods |-> 1] >>
      [] c = "I2" -> << [name |-> "run", mods |-> 1025],
                        [name |-> "close", mods |-> 1025] >>
      [] OTHER    -> << [name |-> "run", mods |-> 1] >>

\* method.getModifiers() & 1024
BitAnd1024(m) == ((m \div ABSTRACT) % 2) * ABSTRACT

(***************************************************************************)
(* Python values that appear in an interface specification.                *)
(***************************************************************************)
Str(s)  == [tag |-> "str", v |-> s, sub |-> <<>>]       \* a str
Cls(c)  == [tag |-> "jclass", v |-> c, sub |-> <<>>]    \* a _jpype.JClass
Obj(o)  == [tag |-> "obj", v |-> o, sub |-> <<>>]       \* a non-iterable of type o
Iter(s) == [tag |-> "iter", v |-> "", sub |-> s]        \* a list/tuple of items

Range(s) == {s[i] : i \in DOMAIN s}

\* Exceptions and results
NoErr == [exc |-> "", msg |-> "", a |-> "", b |-> ""]
TypeError(msg, a) == [exc |-> "TypeError", msg |-> msg, a |-> a, b |-> ""]
NotImplementedError(i, m) ==
    [exc |-> "NotImplementedError", msg |-> "Interface requires method",
     a |-> i, b |-> m]
Raise(e) == [ok |-> FALSE, val |-> <<>>, err |-> e]
Return(v) == [ok |-> TRUE, val |-> v, err |-> NoErr]

AtLeastOne == "At least one Java interface must be specified"
NotInterface == "is not a Java interface"

\* _jpype.JClass(name): the binding layer's lookup, failing on unknown names
JClass(name) ==
    IF name \in JClasses THEN Return(<<Cls(name)>>)
    ELSE Raise([exc |-> "JavaLookupFailure", msg |-> "class not found",
                a |-> name, b |-> ""])

\* All orders in which a set can be iterated
Orders(S) ==
    {s \in [1..Cardinality(S) -> S] : Range(s) = S}

(***************************************************************************)
(* _convertInterfaces                                                      *)
(***************************************************************************)
\* A variant of Flatten that appends every item, iterables included
FlattenAppendOnly(intf) == intf

\* "Flatten the list": str and non-iterables are appended, iterables extended
RECURSIVE Flatten(_)
Flatten(intf) ==
    IF intf = <<>> THEN <<>>
    ELSE LET item == Head(intf)
         IN  IF item.tag = "str" \/ item.tag # "iter"
             THEN <<item>> \o Flatten(Tail(intf))
             ELSE item.sub \o Flatten(Tail(intf))

\* "Look up the classes if given as a string": fills the set actualIntf
RECURSIVE LookupAll(_, _)
LookupAll(intflist, acc) ==
    IF intflist = <<>> THEN Return(acc)
    ELSE LET item == Head(intflist)
         IN  IF item.tag = "str"
             THEN LET r == JClass(item.v)
                  IN  IF r.ok THEN LookupAll(Tail(intflist), acc \cup {r.val[1]})
                      ELSE r
             ELSE LookupAll(Tail(intflist), acc \cup {item})

\* "Check that all are interfaces", iterating the set in the order ord
RECURSIVE CheckAllInterfaces(_, _)
CheckAllInterfaces(ord, i) ==
    IF i > Len(ord) THEN Return(ord)
    ELSE LET cls == ord[i]
         IN  IF cls.tag # "jclass"
             THEN Raise(TypeError(NotInterface, cls.v))
             ELSE IF cls.v \notin JInterfaces
             THEN Raise(TypeError(NotInterface, cls.v))
             ELSE CheckAllInterfaces(ord, i + 1)

\* A variant of _convertInterfaces without the check for an empty set
ConvertWithoutEmptyCheck(intf) ==
    LET lk == LookupAll(Flatten(intf), {})
    IN  IF ~lk.ok THEN {lk}
        ELSE {CheckAllInterfaces(ord, 1) : ord \in Orders(lk.val)}

\* The outcomes of _convertInterfaces(intf): one per iteration order of the
\* set actualIntf (the order fixes which offender is reported, and the
\* order of the tuple returned).
_convertInterfaces(intf) ==
    LET lk == LookupAll(Flatten(intf), {})
    IN  IF ~lk.ok THEN {lk}
        ELSE IF lk.val = {} THEN {Raise(TypeError(AtLeastOne, ""))}
        ELSE {CheckAllInterfaces(ord, 1) : ord \in Orders(lk.val)}

(***************************************************************************)
(* Python classes.  A host class is an ordinary class statement: a base    *)
(* (0 is object) and its own __dict__.  A proxy type is what _createJProxy *)
(* returns: type("proxy.X", (cls, _jpype._JProxy), members), whose first   *)
(* base is the host class cls and whose __new__ is the closure `new` over  *)
(* (cls, intf).  Every class has its own slot for __jpype_interfaces__.    *)
(* tried and failed are history: whether the class was ever called, and    *)
(* whether a call of it ever raised.                                       *)
(***************************************************************************)
None == [id |-> 0, tup |-> <<>>]

DictNames == {"run", "close"}

HostClass(base, dict) ==
    [kind |-> "host", base |-> base, dict |-> dict, intf |-> <<>>,
     deferred |-> FALSE, ifaces |-> None, tried |-> FALSE, failed |-> FALSE]

ProxyType(cls, intf, deferred, ifaces) ==
    [kind |-> "proxy", base |-> cls, dict |-> [n \in DictNames |-> "absent"],
     intf |-> intf, deferred |-> deferred, ifaces |-> ifaces,
     tried |-> FALSE, failed |-> FALSE]

\* getattr(tp, "__jpype_interfaces__", None): the first class of tp's MRO
\* that has the attribute in its own __dict__
RECURSIVE GetAttrInterfaces(_, _)
GetAttrInterfaces(cs, tp) ==
    IF tp = 0 THEN None
    ELSE IF cs[tp].ifaces # None THEN cs[tp].ifaces
    ELSE GetAttrInterfaces(cs, cs[tp].base)

\* type(tp).__new__ resolution: the nearest proxy type in tp's MRO, whose
\* members hold the closure `new` (0 when tp is no proxy type)
RECURSIVE NewOf(_, _)
NewOf(cs, tp) ==
    IF tp = 0 THEN 0
    ELSE IF cs[tp].kind = "proxy" THEN tp
    ELSE NewOf(cs, cs[tp].base)

NumKind(kind) ==
    Cardinality({i \in DOMAIN classes : classes[i].kind = kind})

(***************************************************************************)
(* _classOverrides, _checkInterfaceOverrides, _prepareInterfaces           *)
(***************************************************************************)
\* object.__getattribute__(v, "__joverride__") succeeds on tagged members
HasJOverride(v) == v = "tagged"

\* A variant of _classOverrides that also collects the tagged members the
\* class inherits from its bases
RECURSIVE InheritedOverrides(_)
InheritedOverrides(cls) ==
    {k \in DOMAIN cls.dict : HasJOverride(cls.dict[k])}
    \cup (IF cls.base = 0 THEN {} ELSE InheritedOverrides(classes[cls.base]))

\* The keys of the overrides dict: members of cls.__dict__ carrying the tag
_classOverrides(cls) ==
    {k \in DOMAIN cls.dict : cls.dict[k] # "absent" /\ HasJOverride(cls.dict[k])}

\* The inner loop: the first abstract method of `interface` not in overrides
RECURSIVE CheckMethods(_, _, _, _)
CheckMethods(interface, methods, j, overrides) ==
    IF j > Len(methods) THEN Return(<<>>)
    ELSE LET method == methods[j]
         IN  IF BitAnd1024(method.mods) = 0
             THEN CheckMethods(interface, methods, j + 1, overrides)
             ELSE IF method.name \notin overrides
             THEN Raise(NotImplementedError(interface.v, method.name))
             ELSE CheckMethods(interface, methods, j + 1, overrides)

RECURSIVE CheckFrom(_, _, _)
CheckFrom(interfaces, i, overrides) ==
    IF i > Len(interfaces) THEN Return(<<>>)
    ELSE LET r == CheckMethods(interfaces[i], getMethods(interfaces[i].v),
                               1, overrides)
         IN  IF r.ok THEN CheckFrom(interfaces, i + 1, overrides) ELSE r

_checkInterfaceOverrides(interfaces, overrides) ==
    CheckFrom(interfaces, 1, overrides)

\* The outcomes of _prepareInterfaces(cls, intf)
_prepareInterfaces(cls, intf) ==
    {IF ~actualIntf.ok THEN actualIntf
     ELSE LET chk == _checkInterfaceOverrides(actualIntf.val,
                                              _classOverrides(cls))
          IN  IF chk.ok THEN actualIntf ELSE chk
     : actualIntf \in _convertInterfaces(intf)}

(***************************************************************************)
(* Python values handled by the legacy constructor and by unwrap, and the  *)
(* native allocator _jpype._JProxy.__new__(tp, target, interfaces, convert)*)
(***************************************************************************)
PyNone      == [k |-> "None", n |-> 0]
PyObj(n)    == [k |-> "object", n |-> n]        \* an ordinary Python object
PyDict(n)   == [k |-> "dict", n |-> n]          \* a mapping ({} is PyDict(0))
ProxyRef(i) == [k |-> "proxy", n |-> i]         \* the instance objs[i]

\* _JFromDict(dict): an ordinary object wrapping the mapping
_JFromDict(dict) == [k |-> "_JFromDict", n |-> dict.n]

\* isinstance(obj, _jpype._JProxy)
IsProxy(obj) == obj.k = "proxy"

\* The instance the native allocator builds at heap position self.
\* __javainst__ is the recorded delegate; for target None the native layer
\* records the proxy itself or nothing, as `native` says.
Allocate(tp, target, interfaces, convert, self) ==
    [type |-> tp, target |-> target, intf |-> interfaces, convert |-> convert,
     javainst |-> IF target # PyNone THEN target
                  ELSE IF native = "self" THEN ProxyRef(self) ELSE PyNone]

\* A variant of unwrap that hands every value back as it is
UnwrapIdentity(obj) == obj

\* JProxy.unwrap(obj)
unwrap(obj) ==
    IF ~IsProxy(obj) THEN obj
    ELSE objs[obj.n].javainst

(***************************************************************************)
(* The record of the last operation.                                       *)
(***************************************************************************)
Idle == [op |-> "none", tp |-> 0, intf |-> <<>>, deferred |-> FALSE,
         res |-> Return(<<>>), made |-> 0, pre |-> None, nconv |-> 0, nalloc |-> 0,
         dict |-> PyNone, inst |-> PyNone, out |-> PyNone,
         first |-> FALSE, afterFail |-> FALSE]

NoThreads == <<>>
NoInput == [intf |-> <<>>, kwargs |-> [deferred |-> "unset", other |-> FALSE]]

(***************************************************************************)
(* Inputs.                                                                 *)
(***************************************************************************)
\* Class bodies: each name is absent, a plain method, or a @JOverride method
DictPool ==
    { [n \in DictNames |-> IF n = "run" THEN "tagged" ELSE "absent"],
      [n \in DictNames |-> "tagged"],
      [n \in DictNames |-> IF n = "run" THEN "plain" ELSE "tagged"],
      [n \in DictNames |-> IF n = "run" THEN "absent" ELSE "tagged"] }

\* The class bodies and interface specifications of the runs that build
\* class hierarchies
BodyPool ==
    { [n \in DictNames |-> "tagged"],
      [n \in DictNames |-> IF n = "run" THEN "plain" ELSE "tagged"] }

SpecPool ==
    { <<Str("I1")>>,
      <<Str("I1"), Iter(<<Cls("I2"), Cls("I1")>>)>>,
      <<Iter(<<>>)>> }

\* Generated interface specifications: up to MaxItems items, each a name,
\* a descriptor, another object, or an iterable of up to two names or
\* descriptors
Leaves ==
    {Str("I1"), Cls("I1"), Cls("I2"), Str("K"), Obj("int"), Str("nope")}
InnerLeaves == {Str("I1"), Cls("I2")}
Iterables ==
    {Iter(q) : q \in UNION {[1..n -> InnerLeaves] : n \in 0..2}}
GenSpecs ==
    UNION {[1..n -> Leaves \cup Iterables] : n \in 0..MaxItems}

\* kwargs of JImplements: the value of `deferred` and whether an
\* unrecognised keyword is present
KwPool ==
    { [deferred |-> "unset", other |-> FALSE],
      [deferred |-> "True", other |-> FALSE],
      [deferred |-> "False", other |-> FALSE],
      [deferred |-> "True", other |-> TRUE] }

NativePolicies == {"self", "None"}

Init ==
    /\ classes = <<>>
    /\ objs = <<>>
    /\ nextId = 1
    /\ last = Idle
    /\ thr = NoThreads
    /\ input = NoInput
    /\ native \in NativePolicies

(***************************************************************************)
(* class X(base): ...   -- an ordinary class statement                     *)
(***************************************************************************)
DefineClass(base, dict) ==
    /\ NumKind("host") < MaxHosts
    /\ classes' = Append(classes, HostClass(base, dict))
    /\ last' = [Idle EXCEPT !.op = "class", !.made = Len(classes) + 1]
    /\ UNCHANGED <<objs, nextId, thr, input, native>>

(***************************************************************************)
(* @JImplements(intf..., kwargs...) on cls: _createJProxy(cls, intf, kwargs) *)
(***************************************************************************)
_createJProxy(cls, intf, kwargs) ==
    LET deferred == kwargs.deferred = "True"
        rec == [Idle EXCEPT !.op = "JImplements", !.tp = cls, !.intf = intf,
                            !.deferred = deferred]
    IN
    /\ IF kwargs.other
       THEN /\ last' = [rec EXCEPT !.res = Raise(TypeError("Invalid keywords", ""))]
            /\ UNCHANGED <<classes, nextId>>
       ELSE IF ~deferred
       THEN \E r \in _prepareInterfaces(classes[cls], intf) :
               IF r.ok
               THEN /\ NumKind("proxy") < MaxProxies
                    /\ classes' = Append(classes,
                          ProxyType(cls, intf, FALSE,
                                    [id |-> nextId, tup |-> r.val]))
                    /\ nextId' = nextId + 1
                    /\ last' = [rec EXCEPT !.res = r, !.nconv = 1,
                                           !.made = Len(classes) + 1]
               ELSE /\ last' = [rec EXCEPT !.res = r, !.nconv = 1]
                    /\ UNCHANGED <<classes, nextId>>
       ELSE /\ NumKind("proxy") < MaxProxies
            /\ classes' = Append(classes, ProxyType(cls, intf, TRUE, None))
            /\ last' = [rec EXCEPT !.made = Len(classes) + 1]
            /\ UNCHANGED nextId
    /\ UNCHANGED <<objs, thr, input, native>>

(***************************************************************************)
(* Calling tp runs new(tp, ...), the closure of the proxy type d whose     *)
(* __new__ tp inherits, run without interruption.  tp.__init__ is the host *)
(* class's own initializer and returns normally.                           *)
(***************************************************************************)
new(tp) ==
    LET d == NewOf(classes, tp)
        cls == classes[d].base
        intf == classes[d].intf
        pre == GetAttrInterfaces(classes, tp)
        rec == [Idle EXCEPT !.op = "new", !.tp = tp, !.intf = intf,
                            !.deferred = classes[d].deferred, !.pre = pre,
                            !.first = ~classes[tp].tried,
                            !.afterFail = classes[tp].failed]
    IN
    /\ d # 0
    /\ IF pre = None
       THEN \E r \in _prepareInterfaces(classes[cls], intf) :
               IF r.ok
               THEN /\ Len(objs) < MaxObjs
                    /\ classes' = [classes EXCEPT
                          ![tp].ifaces = [id |-> nextId, tup |-> r.val],
                          ![tp].tried = TRUE]
                    /\ nextId' = nextId + 1
                    /\ objs' = Append(objs,
                          Allocate(tp, PyNone, [id |-> nextId, tup |-> r.val],
                                   FALSE, Len(objs) + 1))
                    /\ last' = [rec EXCEPT !.res = r, !.made = Len(objs) + 1,
                                           !.nconv = 1, !.nalloc = 1]
               ELSE /\ classes' = [classes EXCEPT ![tp].tried = TRUE,
                                                    ![tp].failed = TRUE]
                    /\ last' = [rec EXCEPT !.res = r, !.nconv = 1]
                    /\ UNCHANGED <<objs, nextId>>
       ELSE /\ Len(objs) < MaxObjs
            /\ objs' = Append(objs,
                  Allocate(tp, PyNone, pre, FALSE, Len(objs) + 1))
            /\ classes' = [classes EXCEPT ![tp].tried = TRUE]
            /\ last' = [rec EXCEPT !.made = Len(objs) + 1, !.nalloc = 1]
            /\ UNCHANGED nextId
    /\ UNCHANGED <<thr, input, native>>

Instantiate ==
    \E tp \in 1..Len(classes) : new(tp)

\* "This annotation is placed on an ordinary Python class."
Declare ==
    \E cls \in 1..Len(classes), intf \in SpecPool, kwargs \in KwPool :
        /\ classes[cls].kind = "host"
        /\ _createJProxy(cls, intf, kwargs)

ClassStatement ==
    \E base \in 0..Len(classes), dict \in BodyPool : DefineClass(base, dict)

Next ==
    \/ ClassStatement
    \/ Declare
    \/ Instantiate

Spec == Init /\ [][Next]_vars

(***************************************************************************)
(* Runs over one declaration: a base class, a host class derived from it,  *)
(* and one use of the decorator on the host class with generated           *)
(* arguments, followed by calls of the type it returns.                    *)
(***************************************************************************)
InitDecl ==
    /\ \E bdict \in DictPool, dict \in DictPool :
          classes = <<HostClass(0, bdict), HostClass(1, dict)>>
    /\ input \in [intf : GenSpecs, kwargs : KwPool]
    /\ objs = <<>>
    /\ nextId = 1
    /\ last = Idle
    /\ thr = NoThreads
    /\ native \in NativePolicies

DeclareInput ==
    /\ last.op = "none"
    /\ _createJProxy(2, input.intf, input.kwargs)

NextDecl ==
    \/ DeclareInput
    \/ Instantiate

SpecDecl == InitDecl /\ [][NextDecl]_vars

(***************************************************************************)
(* JProxy.__new__(cls, intf, dict=None, inst=None, convert=False)          *)
(***************************************************************************)
\* A variant of the test below that takes an empty mapping for no mapping
IsTruthy(x) == x \notin {PyNone, PyDict(0)}

\* x is not None
IsNotNone(x) == x # PyNone

JProxy_new(intf, dict, inst, convert) ==
    LET rec == [Idle EXCEPT !.op = "JProxy", !.intf = <<intf>>,
                            !.dict = dict, !.inst = inst, !.nconv = 1]
    IN
    /\ \E actualIntf \in _convertInterfaces(<<intf>>) :
          IF ~actualIntf.ok
          THEN /\ last' = [rec EXCEPT !.res = actualIntf]
               /\ UNCHANGED <<objs, nextId>>
          ELSE IF IsNotNone(dict) /\ IsNotNone(inst)
          THEN /\ last' = [rec EXCEPT !.res =
                     Raise(TypeError("Specify only one of dict and inst", ""))]
               /\ UNCHANGED <<objs, nextId>>
          ELSE IF IsNotNone(dict)
          THEN /\ Len(objs) < MaxObjs
               /\ objs' = Append(objs,
                     Allocate(0, _JFromDict(dict),
                              [id |-> nextId, tup |-> actualIntf.val],
                              convert, Len(objs) + 1))
               /\ nextId' = nextId + 1
               /\ last' = [rec EXCEPT !.res = actualIntf, !.nalloc = 1,
                                      !.made = Len(objs) + 1,
                                      !.out = ProxyRef(Len(objs) + 1)]
          ELSE IF IsNotNone(inst)
          THEN /\ Len(objs) < MaxObjs
               /\ objs' = Append(objs,
                     Allocate(0, inst,
                              [id |-> nextId, tup |-> actualIntf.val],
                              convert, Len(objs) + 1))
               /\ nextId' = nextId + 1
               /\ last' = [rec EXCEPT !.res = actualIntf, !.nalloc = 1,
                                      !.made = Len(objs) + 1,
                                      !.out = ProxyRef(Len(objs) + 1)]
          ELSE /\ last' = [rec EXCEPT !.res =
                     Raise(TypeError("a dict or inst must be specified", ""))]
               /\ UNCHANGED <<objs, nextId>>
    /\ UNCHANGED <<classes, thr, input, native>>

\* The values a caller can hold: ordinary objects and the proxies made
Values ==
    {PyNone, PyObj(1), PyDict(1), _JFromDict(PyDict(1))}
    \cup {ProxyRef(i) : i \in DOMAIN objs}

\* The interface argument of the legacy constructor: one item or iterable
LegacyIntfPool ==
    {Str("I1"), Iter(<<Cls("I1"), Str("I1")>>), Iter(<<>>), Str("K")}

InitLegacy ==
    /\ classes = <<HostClass(0, [n \in DictNames |-> "tagged"]),
                   ProxyType(1, <<Str("I1")>>, TRUE, None)>>
    /\ objs = <<>>
    /\ nextId = 1
    /\ last = Idle
    /\ thr = NoThreads
    /\ input = NoInput
    /\ native \in NativePolicies

LegacyConstruct ==
    \E intf \in LegacyIntfPool, dict \in {PyNone, PyDict(0), PyDict(1)},
       inst \in {PyNone, PyObj(1)} \cup {ProxyRef(i) : i \in DOMAIN objs},
       convert \in BOOLEAN :
        JProxy_new(intf, dict, inst, convert)

\* A call JProxy.unwrap(obj), recording its result
UnwrapCall ==
    \E obj \in Values :
        /\ last' = [Idle EXCEPT !.op = "unwrap", !.inst = obj,
                                 !.out = unwrap(obj)]
        /\ UNCHANGED <<classes, objs, nextId, thr, input, native>>

NextLegacy ==
    \/ LegacyConstruct
    \/ UnwrapCall
    \/ Instantiate

SpecLegacy == InitLegacy /\ [][NextLegacy]_vars

(***************************************************************************)
(* The closure `new` run by several threads: each statement of its body is *)
(* a step, and the interpreter may switch threads between any two.         *)
(***************************************************************************)
Threads == 1..MaxThreads

Starting(tp) ==
    [pc |-> "call", tp |-> tp, val |-> None, res |-> Return(<<>>),
     attached |-> FALSE]

InitThreads ==
    /\ \E dict \in DictPool, intf \in SpecPool :
          classes = <<HostClass(0, dict), ProxyType(1, intf, TRUE, None)>>
    /\ thr = [t \in Threads |-> Starting(2)]
    /\ objs = <<>>
    /\ nextId = 1
    /\ last = Idle
    /\ input = NoInput
    /\ native \in NativePolicies

\* if getattr(tp, "__jpype_interfaces__", None) is None:
NewCheck(t) ==
    /\ thr[t].pc = "call"
    /\ thr' = [thr EXCEPT ![t].pc =
                  IF GetAttrInterfaces(classes, thr[t].tp) = None
                  THEN "resolve" ELSE "alloc"]
    /\ UNCHANGED <<classes, objs, nextId, last, input, native>>

\* the right-hand side _prepareInterfaces(cls, intf)
NewResolve(t) ==
    LET d == NewOf(classes, thr[t].tp)
    IN
    /\ thr[t].pc = "resolve"
    /\ \E r \in _prepareInterfaces(classes[classes[d].base], classes[d].intf) :
          IF r.ok
          THEN /\ thr' = [thr EXCEPT ![t].pc = "attach",
                             ![t].val = [id |-> nextId, tup |-> r.val]]
               /\ nextId' = nextId + 1
          ELSE /\ thr' = [thr EXCEPT ![t].pc = "raised", ![t].res = r]
               /\ UNCHANGED nextId
    /\ UNCHANGED <<classes, objs, last, input, native>>

\* the store tp.__jpype_interfaces__ = ...
NewAttach(t) ==
    /\ thr[t].pc = "attach"
    /\ classes' = [classes EXCEPT ![thr[t].tp].ifaces = thr[t].val]
    /\ thr' = [thr EXCEPT ![t].pc = "alloc", ![t].attached = TRUE]
    /\ UNCHANGED <<objs, nextId, last, input, native>>

\* self = _jpype._JProxy.__new__(tp, None, tp.__jpype_interfaces__)
NewAlloc(t) ==
    /\ thr[t].pc = "alloc"
    /\ objs' = Append(objs,
          Allocate(thr[t].tp, PyNone, GetAttrInterfaces(classes, thr[t].tp),
                   FALSE, Len(objs) + 1))
    /\ thr' = [thr EXCEPT ![t].pc = "done"]
    /\ UNCHANGED <<classes, nextId, last, input, native>>

NextThreads ==
    \E t \in Threads :
        \/ NewCheck(t)
        \/ NewResolve(t)
        \/ NewAttach(t)
        \/ NewAlloc(t)

SpecThreads == InitThreads /\ [][NextThreads]_vars

(***************************************************************************)
(* What the claims speak of, stated independently of the code above.       *)
(***************************************************************************)
\* The class names an interface specification mentions, at any level
Named(intf) ==
    {intf[i].v : i \in {j \in DOMAIN intf : intf[j].tag # "iter"}}
    \cup UNION {{intf[i].sub[k].v : k \in DOMAIN intf[i].sub}
                : i \in {j \in DOMAIN intf : intf[j].tag = "iter"}}

\* Every item is a name or a descriptor of an interface, or a one-level
\* iterable of such
IsInterfaceLeaf(x) == x.tag \in {"str", "jclass"} /\ x.v \in JInterfaces
WellFormed(intf) ==
    \A i \in DOMAIN intf :
        IF intf[i].tag = "iter"
        THEN \A k \in DOMAIN intf[i].sub : IsInterfaceLeaf(intf[i].sub[k])
        ELSE IsInterfaceLeaf(intf[i])

AbstractNames(c) ==
    {getMethods(c)[j].name :
        j \in {k \in DOMAIN getMethods(c) : getMethods(c)[k].mods >= ABSTRACT}}

Tagged(cls) == {n \in DictNames : cls.dict[n] = "tagged"}

\* The (interface, method) pairs the class cls leaves without an override
Lacks(cls, intf) ==
    {p \in JInterfaces \X MethodNames :
        /\ p[1] \in Named(intf)
        /\ p[2] \in AbstractNames(p[1])
        /\ p[2] \notin Tagged(cls)}

IsMissingOverrideError(res, cls, intf) ==
    /\ ~res.ok
    /\ res.err.exc = "NotImplementedError"
    /\ <<res.err.a, res.err.b>> \in Lacks(cls, intf)

IsConfigurationError(res) ==
    /\ ~res.ok
    /\ res.err.exc = "TypeError"
    /\ res.err.msg \in {AtLeastOne, "Invalid keywords",
                        "Specify only one of dict and inst",
                        "a dict or inst must be specified"}

\* The host class of the declaration that produced proxy type d
HostOf(d) == classes[classes[d].base]

\* A proxy type declared in deferred mode
IsDeferredType(tp) ==
    /\ tp \in DOMAIN classes
    /\ classes[tp].kind = "proxy"
    /\ classes[tp].deferred

\* C1: a host class lacking an override fails eager declaration with
\* MissingOverrideError and yields no type; deferred declaration yields a
\* type without error, and the first call of that type raises the error;
\* the error is raised by no operation other than these two.
C1_MissingOverride ==
    /\ (/\ last.op = "JImplements"
        /\ last.res.err.msg # "Invalid keywords"
        /\ WellFormed(last.intf)
        /\ Lacks(classes[last.tp], last.intf) # {})
       => IF last.deferred
          THEN last.res.ok /\ last.made # 0 /\ IsDeferredType(last.made)
          ELSE /\ IsMissingOverrideError(last.res, classes[last.tp], last.intf)
               /\ last.made = 0
    /\ (/\ last.op = "new"
        /\ last.first
        /\ IsDeferredType(last.tp)
        /\ WellFormed(last.intf)
        /\ Lacks(HostOf(last.tp), last.intf) # {})
       => /\ IsMissingOverrideError(last.res, HostOf(last.tp), last.intf)
          /\ last.made = 0
    /\ (~last.res.ok /\ last.res.err.exc = "NotImplementedError")
       => \/ last.op = "new"
          \/ last.op = "JImplements" /\ ~last.deferred

\* C2: for a deferred type, the first successful call resolves once and
\* attaches; every later call resolves nothing and passes the allocator
\* the very InterfaceSet the first call attached.
C2_ResolveOnce ==
    (/\ last.op = "new"
     /\ last.made # 0
     /\ IsDeferredType(last.tp))
    => LET earlier == {i \in 1..(last.made - 1) : objs[i].type = last.tp}
           firstObj == CHOOSE i \in earlier : \A j \in earlier : i <= j
       IN  IF earlier = {}
           THEN /\ last.nconv = 1
                /\ classes[last.tp].ifaces = objs[last.made].intf
           ELSE /\ last.nconv = 0
                /\ objs[last.made].intf = objs[firstObj].intf
                /\ classes[last.tp].ifaces = objs[firstObj].intf

\* C9: a failed call of a deferred type attaches nothing, allocates
\* nothing and returns nothing; every call after a failed one resolves and
\* validates again; an attached InterfaceSet passed validation.
C9_FailedAttempt ==
    /\ (last.op = "new" /\ IsDeferredType(last.tp) /\ ~last.res.ok)
       => /\ classes[last.tp].ifaces = None
          /\ last.nalloc = 0
          /\ last.made = 0
    /\ (last.op = "new" /\ IsDeferredType(last.tp) /\ last.afterFail)
       => last.nconv = 1
    /\ \A tp \in DOMAIN classes :
          (IsDeferredType(tp) /\ classes[tp].ifaces # None)
          => /\ WellFormed(classes[tp].intf)
             /\ Lacks(HostOf(tp), classes[tp].intf) = {}

\* C10: every instance of a declaratively produced type is allocated with
\* the InterfaceSet resolved from the declaration whose `new` ran, and that
\* declaration's host class passed override validation.
C10_OwnDeclaration ==
    \A i \in DOMAIN objs :
        objs[i].type # 0
        => LET d == NewOf(classes, objs[i].type)
           IN  /\ WellFormed(classes[d].intf)
               /\ Range(objs[i].intf.tup) =
                     {Cls(n) : n \in Named(classes[d].intf)}
               /\ Lacks(HostOf(d), classes[d].intf) = {}

\* C3: two threads constructing the first instances of a deferred type
\* attach the InterfaceSet exactly once, and every instance is allocated
\* with the same InterfaceSet.
C3_AttachOnce ==
    (\A t \in Threads : thr[t].pc = "done")
    => /\ Cardinality({t \in Threads : thr[t].attached}) = 1
       /\ \A i, j \in DOMAIN objs : objs[i].intf = objs[j].intf

\* The tuple holds exactly the interfaces named, each once
ExactlyDistinct(tup, names) ==
    /\ Range(tup) = {Cls(n) : n \in names}
    /\ Len(tup) = Cardinality(names)

ValidKeywords == last.res.err.msg # "Invalid keywords"

\* C4 as claimed: for a specification naming at least one interface, all
\* of them overridden, the decorator returns a type carrying an attached
\* InterfaceSet of exactly the distinct interfaces named.
C4_AttachedAtDeclaration ==
    (/\ last.op = "JImplements"
     /\ ValidKeywords
     /\ WellFormed(last.intf)
     /\ Named(last.intf) # {}
     /\ Lacks(classes[last.tp], last.intf) = {})
    => /\ last.res.ok
       /\ last.made # 0
       /\ classes[last.made].ifaces # None
       /\ ExactlyDistinct(classes[last.made].ifaces.tup, Named(last.intf))

\* C4 amended: in eager mode the returned type carries exactly the
\* distinct interfaces named; in deferred mode the decorator succeeds too
\* but the returned type has no InterfaceSet of its own, and a call that
\* resolves attaches exactly the distinct interfaces named.
C4_AttachedWhenResolved ==
    /\ (/\ last.op = "JImplements"
        /\ ValidKeywords
        /\ WellFormed(last.intf)
        /\ Named(last.intf) # {}
        /\ Lacks(classes[last.tp], last.intf) = {})
       => /\ last.res.ok
          /\ last.made # 0
          /\ classes[last.made].kind = "proxy"
          /\ IF last.deferred
             THEN classes[last.made].ifaces = None
             ELSE ExactlyDistinct(classes[last.made].ifaces.tup,
                                  Named(last.intf))
    /\ (/\ last.op = "new"
        /\ last.pre = None
        /\ WellFormed(last.intf)
        /\ Named(last.intf) # {}
        /\ Lacks(HostOf(NewOf(classes, last.tp)), last.intf) = {})
       => /\ last.res.ok
          /\ last.made # 0
          /\ classes[last.tp].ifaces = objs[last.made].intf
          /\ ExactlyDistinct(classes[last.tp].ifaces.tup, Named(last.intf))

C4_Witness ==
    /\ last.op = "JImplements"
    /\ ~last.deferred
    /\ last.made # 0
    /\ \E i \in DOMAIN last.intf : last.intf[i].tag = "iter"
    /\ Len(Flatten(last.intf)) > Cardinality(Named(last.intf))
    /\ Cardinality(Named(last.intf)) = 2
    /\ Len(classes[last.made].ifaces.tup) = 2

\* C5 as claimed: unwrap of a non-proxy is the value itself, and
\* unwrapping the result of unwrap changes nothing, for every value, a
\* legacy proxy over another proxy included.
C5_UnwrapIdempotent ==
    last.op = "unwrap"
    => /\ ~IsProxy(last.inst) => last.out = last.inst
       /\ unwrap(last.out) = last.out

\* C5 amended: unwrap of a non-proxy is the value itself; unwrap of a
\* proxy is the delegate recorded at its construction (the object or the
\* wrapped mapping of a legacy proxy), one level only; unwrapping the
\* result changes nothing whenever that result is not itself a proxy.
C5_UnwrapOneLevel ==
    last.op = "unwrap"
    => /\ ~IsProxy(last.inst) => last.out = last.inst
       /\ (IsProxy(last.inst) /\ objs[last.inst.n].target # PyNone)
          => last.out = objs[last.inst.n].target
       /\ (IsProxy(last.inst) /\ objs[last.inst.n].target = PyNone)
          => last.out \in {last.inst, PyNone}
       /\ ~IsProxy(last.out) => unwrap(last.out) = last.out

C5_Witness ==
    /\ last.op = "unwrap"
    /\ IsProxy(last.inst)
    /\ objs[last.inst.n].target = PyObj(1)
    /\ last.out = PyObj(1)
    /\ unwrap(last.out) = last.out

\* C6: with a valid interface specification, the legacy constructor raises
\* ConfigurationError without calling the allocator when given both a
\* mapping and an object or neither, and calls the allocator once and
\* returns a proxy when given exactly one (an empty mapping included).
C6_DictXorInst ==
    (/\ last.op = "JProxy"
     /\ WellFormed(last.intf)
     /\ Named(last.intf) # {})
    => IF (last.dict = PyNone) = (last.inst = PyNone)
       THEN /\ IsConfigurationError(last.res)
            /\ last.nalloc = 0
            /\ last.made = 0
       ELSE /\ last.res.ok
            /\ last.nalloc = 1
            /\ last.made = Len(objs)
            /\ IsProxy(last.out)
            /\ objs[last.made].target =
                  IF last.dict # PyNone THEN _JFromDict(last.dict)
                  ELSE last.inst

C6_Witness ==
    /\ last.op = "JProxy"
    /\ last.dict = PyDict(0)
    /\ last.inst = PyNone
    /\ last.res.ok
    /\ last.made # 0

\* The specification names no interface: no items, or only empty iterables
NamesNothing(intf) ==
    \A i \in DOMAIN intf : intf[i].tag = "iter" /\ intf[i].sub = <<>>

\* C7 as claimed: a specification naming no interface makes the decorator
\* fail with ConfigurationError, in eager and in deferred mode.
C7_EmptyFailsAtDeclaration ==
    (/\ last.op = "JImplements"
     /\ ValidKeywords
     /\ NamesNothing(last.intf))
    => /\ IsConfigurationError(last.res)
       /\ last.made = 0

\* C7 amended: in eager mode the decorator fails with ConfigurationError;
\* in deferred mode it returns a type, and every call of a type that
\* resolves such a specification fails with ConfigurationError, attaching
\* and allocating nothing.
C7_EmptyFailsWhenResolved ==
    /\ (/\ last.op = "JImplements"
        /\ ValidKeywords
        /\ NamesNothing(last.intf))
       => IF last.deferred
          THEN /\ last.res.ok
               /\ last.made # 0
               /\ classes[last.made].ifaces = None
          ELSE /\ IsConfigurationError(last.res)
               /\ last.res.err.msg = AtLeastOne
               /\ last.made = 0
    /\ (/\ last.op = "new"
        /\ last.pre = None
        /\ NamesNothing(last.intf))
       => /\ IsConfigurationError(last.res)
          /\ last.res.err.msg = AtLeastOne
          /\ last.made = 0
          /\ last.nalloc = 0
          /\ classes[last.tp].ifaces = None

C7_Witness ==
    /\ last.op = "new"
    /\ last.deferred
    /\ NamesNothing(last.intf)
    /\ ~last.res.ok
    /\ last.pre = None

\* The class on which the last operation collected overrides
ValidatedHost ==
    IF last.op = "JImplements" THEN classes[last.tp]
    ELSE HostOf(NewOf(classes, last.tp))

\* The names tagged on some base of cls, whatever cls declares itself
RECURSIVE TaggedInBases(_)
TaggedInBases(cls) ==
    IF cls.base = 0 THEN {}
    ELSE Tagged(classes[cls.base]) \cup TaggedInBases(classes[cls.base])

\* C8: only members declared on the host class itself count as overrides:
\* when an abstract method of a requested interface is tagged on a base
\* class only, validation fails with MissingOverrideError; when the host
\* class declares every abstract method with the tag, validation passes.
C8_OwnMembersOnly ==
    (/\ last.op \in {"JImplements", "new"}
     /\ last.nconv = 1
     /\ WellFormed(last.intf)
     /\ Named(last.intf) # {})
    => /\ (\E p \in Lacks(ValidatedHost, last.intf) :
              p[2] \in TaggedInBases(ValidatedHost))
          => IsMissingOverrideError(last.res, ValidatedHost, last.intf)
       /\ Lacks(ValidatedHost, last.intf) = {} => last.res.ok
       /\ \A k \in DictNames :
             ValidatedHost.dict[k] # "tagged"
             => k \notin _classOverrides(ValidatedHost)

C8_Witness ==
    /\ last.op = "JImplements"
    /\ last.nconv = 1
    /\ WellFormed(last.intf)
    /\ "run" \in TaggedInBases(ValidatedHost)
    /\ ValidatedHost.dict["run"] = "absent"
    /\ IsMissingOverrideError(last.res, ValidatedHost, last.intf)
    /\ last.res.err.b = "run"

====
